---- MODULE Spec2Model ----
(***************************************************************************)
(* A model of the de-identification pipeline of AI-Visual-De-identification *)
(* (utils/detect_utils.py, utils/redact_utils.py, utils/ocr_utils.py and    *)
(* app.py).  Strings are sequences of one-character strings, images are     *)
(* functions from pixel coordinates to colour triples, and the regular      *)
(* expressions of PATTERNS are syntax trees matched by a backtracking       *)
(* matcher with the priorities of Python's re module.                       *)
(***************************************************************************)
EXTENDS Integers, Sequences, FiniteSets, TLC

VARIABLES
    text_findings,           \* align_text_findings_to_boxes: its first argument
    ocr_lines,               \* the page's OCR lines, records [text, box]
    boxes,                   \* the list align_text_findings_to_boxes returns
    full_text,               \* process_one_pil: "\n".join of the lines' texts
    apc,                     \* position of the text pipeline
    cv_img,                  \* apply_redactions_cv: the BGR input array
    detections,              \* apply_redactions_cv: the list of findings
    mode,                    \* "blur" or "black"
    redacted,                \* the PIL image apply_redactions_cv returned
    redacted2,               \* the PIL image of a second application
    kernels,                 \* the blur kernel sizes the call used, in order
    rpc,                     \* position of the redaction run
    uploads,                 \* app.py: the uploaded files, in upload order
    opts,                    \* app.py: the options ticked in the page
    model_installed,         \* whether spacy.load("en_core_web_sm") can succeed
    _NLP,                    \* detect_utils.py: the cached language model
    pc,                      \* app.py: position of the script run
    crash,                   \* the call whose exception ended the script run
    fi,                      \* main loop: index of the file being processed
    pno,                     \* main loop: index of the next page of that file
    all_logs,                \* app.py: all_logs
    redacted_images_global,  \* app.py: redacted_images_global
    real_redacted_images,    \* app.py: the pages written to the exported PDF
    bundle,                  \* st.session_state.bundle
    total_units,             \* app.py: total_units
    done_units               \* st.session_state.done_units

----------------------------------------------------------------------------
(* Characters and strings                                                  *)

LowerSeq == <<"a", "b", "c", "d", "e", "f", "g", "h", "i", "j", "k", "l", "m",
              "n", "o", "p", "q", "r", "s", "t", "u", "v", "w", "x", "y", "z">>

UpperSeq == <<"A", "B", "C", "D", "E", "F", "G", "H", "I", "J", "K", "L", "M",
              "N", "O", "P", "Q", "R", "S", "T", "U", "V", "W", "X", "Y", "Z">>

DigitSeq == <<"0", "1", "2", "3", "4", "5", "6", "7", "8", "9">>

IndexIn(seq, c) == CHOOSE i \in 1..Len(seq) : seq[i] = c

\* the characters of seq from a to b, as a character class range a-b
Range(seq, a, b) == {seq[i] : i \in IndexIn(seq, a)..IndexIn(seq, b)}

Lower == Range(LowerSeq, "a", "z")
Upper == Range(UpperSeq, "A", "Z")
Digit == Range(DigitSeq, "0", "9")
Letter == Lower \cup Upper
Space == {" ", "\n"}
Punct == {"@", ".", "-", "_", "+", "%", ":", "/", ",", "(", ")", "|"}
Alphabet == Letter \cup Digit \cup Space \cup Punct

\* \w and \W of the re module, over Alphabet
Word == Letter \cup Digit \cup {"_"}

\* str.lower() and str.upper() on one character
ToLower(c) == IF c \in Upper THEN LowerSeq[IndexIn(UpperSeq, c)] ELSE c
ToUpper(c) == IF c \in Lower THEN UpperSeq[IndexIn(LowerSeq, c)] ELSE c

\* str.lower()
LowerStr(s) == [i \in 1..Len(s) |-> ToLower(s[i])]

\* `t in s' on strings
Contains(s, t) ==
    \E i \in 0..(Len(s) - Len(t)) : SubSeq(s, i + 1, i + Len(t)) = t

\* concatenation of a sequence of strings
RECURSIVE Concat(_)
Concat(ss) == IF Len(ss) = 0 THEN <<>> ELSE Head(ss) \o Concat(Tail(ss))

\* sep.join(ss)
RECURSIVE Join(_, _)
Join(ss, sep) ==
    IF Len(ss) = 0 THEN <<>>
    ELSE IF Len(ss) = 1 THEN ss[1]
    ELSE ss[1] \o sep \o Join(Tail(ss), sep)

\* str.splitlines(): no empty last line after a final line break
RECURSIVE SplitLines(_)
SplitLines(s) ==
    IF Len(s) = 0 THEN <<>>
    ELSE IF \E i \in 1..Len(s) : s[i] = "\n"
         THEN LET i == CHOOSE j \in 1..Len(s) :
                           s[j] = "\n" /\ \A k \in 1..(j - 1) : s[k] # "\n"
              IN <<SubSeq(s, 1, i - 1)>> \o SplitLines(SubSeq(s, i + 1, Len(s)))
         ELSE <<s>>

\* s[:n]
Prefix(s, n) == SubSeq(s, 1, IF Len(s) < n THEN Len(s) ELSE n)

\* str.strip()
RECURSIVE Strip(_)
Strip(s) ==
    IF Len(s) = 0 THEN s
    ELSE IF s[1] \in Space THEN Strip(Tail(s))
    ELSE IF s[Len(s)] \in Space THEN Strip(SubSeq(s, 1, Len(s) - 1))
    ELSE s

----------------------------------------------------------------------------
(* Regular expressions: syntax trees and the backtracking matcher           *)

Cls(cs) == [t |-> "set", s |-> cs]                  \* one character of cs
Grp(rs) == [t |-> "grp", rs |-> rs]                 \* (?:...)
Alt(alts) == [t |-> "alt", alts |-> alts]           \* a|b|c, in order
Rep(rs, lo, hi) == [t |-> "rep", rs |-> rs, lo |-> lo, hi |-> hi]  \* greedy {lo,hi}; hi = -1: no limit
Opt(rs) == Rep(rs, 0, 1)                            \* ?
Plus(rs) == Rep(rs, 1, -1)                         \* +
Star(rs) == Rep(rs, 0, -1)                         \* *
WordBoundary == [t |-> "wb"]                        \* \b
NotBehind(cs) == [t |-> "nlb", s |-> cs]            \* (?<![cs])
NotAhead(cs) == [t |-> "nla", s |-> cs]             \* (?![cs])
Lit(s) == [i \in 1..Len(s) |-> Cls({s[i]})]         \* a literal string
LitI(s) == [i \in 1..Len(s) |-> Cls({ToLower(s[i]), ToUpper(s[i])})]  \* under re.I

IsWordAt(s, i) == i >= 1 /\ i <= Len(s) /\ s[i] \in Word

\* the number of consecutive characters of class cs from position i of s
RunLen(s, i, cs) ==
    LET stops == {j \in i..(Len(s) + 1) : j = Len(s) + 1 \/ s[j] \notin cs}
    IN (CHOOSE j \in stops : \A k \in stops : j <= k) - i

Largest(S) == CHOOSE x \in S : \A y \in S : y <= x
Smallest(S) == CHOOSE x \in S : \A y \in S : x <= y

\* The end (index of the next unread character) of the first match, in
\* backtracking order, of the concatenation rs at position i of s; -1 if none.
\* A greedy repetition tries the larger counts first; a repetition of one
\* character class does so over the counts the run of that class allows.
RECURSIVE MatchSeq(_, _, _)
RECURSIVE TryAlts(_, _, _, _)
MatchSeq(rs, s, i) ==
    IF Len(rs) = 0 THEN i
    ELSE LET h == Head(rs)
             rest == Tail(rs)
         IN CASE h.t = "set" ->
                   IF i <= Len(s) /\ s[i] \in h.s THEN MatchSeq(rest, s, i + 1) ELSE -1
              [] h.t = "wb" ->
                   IF IsWordAt(s, i - 1) # IsWordAt(s, i) THEN MatchSeq(rest, s, i) ELSE -1
              [] h.t = "nlb" ->
                   IF i > 1 /\ s[i - 1] \in h.s THEN -1 ELSE MatchSeq(rest, s, i)
              [] h.t = "nla" ->
                   IF i <= Len(s) /\ s[i] \in h.s THEN -1 ELSE MatchSeq(rest, s, i)
              [] h.t = "grp" -> MatchSeq(h.rs \o rest, s, i)
              [] h.t = "alt" -> TryAlts(h.alts, rest, s, i)
              [] h.t = "rep" /\ Len(h.rs) = 1 /\ h.rs[1].t = "set" ->
                   LET run == RunLen(s, i, h.rs[1].s)
                       most == IF h.hi >= 0 /\ h.hi < run THEN h.hi ELSE run
                       ok == {k \in h.lo..most : MatchSeq(rest, s, i + k) # -1}
                   IN IF ok = {} THEN -1 ELSE MatchSeq(rest, s, i + Largest(ok))
              [] OTHER ->
                   LET left == IF h.hi > 0 THEN h.hi - 1 ELSE h.hi
                       more == IF h.hi # 0
                               THEN MatchSeq(h.rs \o <<Rep(h.rs, h.lo - 1, left)>> \o rest, s, i)
                               ELSE -1
                   IN IF more # -1 THEN more
                      ELSE IF h.lo <= 0 THEN MatchSeq(rest, s, i)
                      ELSE -1

TryAlts(alts, rest, s, i) ==
    IF Len(alts) = 0 THEN -1
    ELSE LET e == MatchSeq(Head(alts) \o rest, s, i)
         IN IF e # -1 THEN e ELSE TryAlts(Tail(alts), rest, s, i)

\* pat.finditer(s): the non-overlapping matches from position pos on, leftmost first
RECURSIVE FindIter(_, _, _)
FindIter(pat, s, pos) ==
    LET starts == {p \in pos..Len(s) : MatchSeq(pat, s, p) # -1}
    IN IF starts = {} THEN <<>>
       ELSE LET p == Smallest(starts)
                e == MatchSeq(pat, s, p)
            IN <<[start |-> p, end |-> e]>>
                   \o FindIter(pat, s, IF e = p THEN p + 1 ELSE e)

\* re.search(pat, s) is not None
Search(pat, s) == \E pos \in 1..(Len(s) + 1) : MatchSeq(pat, s, pos) # -1

----------------------------------------------------------------------------
(* detect_utils.py: PATTERNS, in the order of the dictionary               *)

D == Cls(Digit)                                     \* \d and [0-9]
Sep == Cls({"-"} \cup Space)                        \* [-\s]
Dot == Cls({"."})
UpperDigit == Cls(Upper \cup Digit)                 \* [A-Z0-9]
Hex == Cls(Digit \cup Range(UpperSeq, "A", "F") \cup Range(LowerSeq, "a", "f"))
WS == Cls(Space)                                    \* \s

EMAIL == <<WordBoundary,
           Plus(<<Cls(Letter \cup Digit \cup {".", "_", "%", "+", "-"})>>),
           Cls({"@"}),
           Plus(<<Cls(Letter \cup Digit \cup {".", "-"})>>),
           Dot,
           Rep(<<Cls(Letter)>>, 2, -1),
           WordBoundary>>

\* PHONE without its optional separators and brackets
PhoneDigitsOnly == <<NotBehind(Digit), Rep(<<D>>, 10, 13), NotAhead(Digit)>>

PHONE == <<NotBehind(Digit),
           Opt(<<Opt(<<Cls({"+"})>>), Rep(<<D>>, 1, 3), Opt(<<Sep>>)>>),
           Rep(<<Opt(<<Cls({"("})>>), Rep(<<D>>, 3, 3), Opt(<<Cls({")"})>>), Opt(<<Sep>>)>>, 1, 1),
           Rep(<<D>>, 3, 3),
           Opt(<<Sep>>),
           Rep(<<D>>, 4, 4),
           NotAhead(Digit)>>

AADHAAR == <<NotBehind(Digit),
             Grp(<<Rep(<<D>>, 4, 4), Opt(<<Sep>>), Rep(<<D>>, 4, 4), Opt(<<Sep>>),
                   Rep(<<D>>, 4, 4)>>),
             NotAhead(Digit)>>

PAN == <<WordBoundary, Rep(<<Cls(Upper)>>, 5, 5), Rep(<<D>>, 4, 4), Cls(Upper),
         WordBoundary>>

GSTIN == <<WordBoundary, Rep(<<D>>, 2, 2), Rep(<<Cls(Upper)>>, 5, 5), Rep(<<D>>, 4, 4),
           Cls(Upper), Cls(Range(DigitSeq, "1", "9") \cup Upper), Cls({"Z"}),
           UpperDigit, WordBoundary>>

IFSC == <<WordBoundary, Rep(<<Cls(Upper)>>, 4, 4), Cls({"0"}), Rep(<<UpperDigit>>, 6, 6),
          WordBoundary>>

SSN == <<WordBoundary, Rep(<<D>>, 3, 3), Cls({"-"}), Rep(<<D>>, 2, 2), Cls({"-"}),
         Rep(<<D>>, 4, 4), WordBoundary>>

NPI == <<WordBoundary, Rep(<<D>>, 10, 10), WordBoundary>>

PASSPORT == <<WordBoundary,
              Cls(Range(UpperSeq, "A", "P") \cup Range(UpperSeq, "R", "W") \cup {"Y"}
                    \cup Range(LowerSeq, "a", "p") \cup Range(LowerSeq, "r", "w") \cup {"y"}),
              Rep(<<D>>, 7, 8), WordBoundary>>

DL_GENERIC == <<WordBoundary, Rep(<<UpperDigit>>, 6, 15), WordBoundary>>

CREDIT_CARD == <<Grp(<<Rep(<<Rep(<<D>>, 4, 4), Opt(<<Cls({"-", " "})>>)>>, 3, 3),
                       Rep(<<D>>, 4, 4)>>)>>

CVV == <<NotBehind(Digit), Rep(<<D>>, 3, 3), NotAhead(Digit)>>

BANK_ACC == <<NotBehind(Digit), Rep(<<D>>, 9, 18), NotAhead(Digit)>>

Century == Alt(<<Lit(<<"1", "9">>), Lit(<<"2", "0">>)>>)     \* (?:19|20)

DOB == <<WordBoundary,
         Alt(<<LitI(<<"D", "O", "B">>),
               LitI(<<"D", "a", "t", "e", " ", "o", "f", " ", "B", "i", "r", "t", "h">>),
               LitI(<<"B", "i", "r", "t", "h", " ", "D", "a", "t", "e">>)>>),
         Star(<<WS>>), Opt(<<Cls({":", "-"})>>), Star(<<WS>>),
         Alt(<< <<Rep(<<D>>, 1, 2), Cls({"/", "-"}), Rep(<<D>>, 1, 2), Cls({"/", "-"}),
                  Century, Rep(<<D>>, 2, 2)>>,
                <<Rep(<<Cls(Letter)>>, 3, 9), Plus(<<WS>>), Rep(<<D>>, 1, 2), Cls({","}),
                  Plus(<<WS>>), Century, Rep(<<D>>, 2, 2)>> >>),
         WordBoundary>>

ICD10 == <<WordBoundary,
           Cls(Range(UpperSeq, "A", "T") \cup Range(UpperSeq, "V", "Z")),
           D, Cls(Digit \cup {"A", "B"}),
           Opt(<<Dot, Rep(<<Cls(Digit \cup Range(UpperSeq, "A", "T")
                                  \cup Range(UpperSeq, "V", "Z"))>>, 1, 4)>>),
           WordBoundary>>

\* (?:25[0-5]|2[0-4]\d|[01]?\d?\d)
Octet == Alt(<< <<Cls({"2"}), Cls({"5"}), Cls(Range(DigitSeq, "0", "5"))>>,
                <<Cls({"2"}), Cls(Range(DigitSeq, "0", "4")), D>>,
                <<Opt(<<Cls({"0", "1"})>>), Opt(<<D>>), D>> >>)

IP == <<WordBoundary, Rep(<<Octet, Dot>>, 3, 3), Octet, WordBoundary>>

MAC == <<WordBoundary, Rep(<<Rep(<<Hex>>, 2, 2), Cls({":", "-"})>>, 5, 5),
         Rep(<<Hex>>, 2, 2), WordBoundary>>

URL == Lit(<<"h", "t", "t", "p">>) \o <<Opt(<<Cls({"s"})>>)>> \o Lit(<<":", "/", "/">>)
           \o <<Plus(<<Cls(Alphabet \ Space)>>)>>

\* (?i) Member\s*ID|Policy\s*No\.?|Subscriber\s*ID|Payer\s*ID|Group\s*No\.?
InsuranceKey ==
    Alt(<<LitI(<<"M", "e", "m", "b", "e", "r">>) \o <<Star(<<WS>>)>> \o LitI(<<"I", "D">>),
          LitI(<<"P", "o", "l", "i", "c", "y">>) \o <<Star(<<WS>>)>> \o LitI(<<"N", "o">>)
              \o <<Opt(<<Dot>>)>>,
          LitI(<<"S", "u", "b", "s", "c", "r", "i", "b", "e", "r">>) \o <<Star(<<WS>>)>>
              \o LitI(<<"I", "D">>),
          LitI(<<"P", "a", "y", "e", "r">>) \o <<Star(<<WS>>)>> \o LitI(<<"I", "D">>),
          LitI(<<"G", "r", "o", "u", "p">>) \o <<Star(<<WS>>)>> \o LitI(<<"N", "o">>)
              \o <<Opt(<<Dot>>)>> >>)

INSURANCE_ID == <<WordBoundary, InsuranceKey,
                  Star(<<WS>>), Opt(<<Cls({":", "-"})>>), Star(<<WS>>),
                  Rep(<<Cls(Letter \cup Digit \cup {"-"})>>, 5, 20),
                  WordBoundary>>

PATTERNS == <<
    [label |-> "EMAIL", pat |-> EMAIL],
    [label |-> "PHONE", pat |-> PHONE],
    [label |-> "AADHAAR", pat |-> AADHAAR],
    [label |-> "PAN", pat |-> PAN],
    [label |-> "GSTIN", pat |-> GSTIN],
    [label |-> "IFSC", pat |-> IFSC],
    [label |-> "SSN", pat |-> SSN],
    [label |-> "NPI", pat |-> NPI],
    [label |-> "PASSPORT", pat |-> PASSPORT],
    [label |-> "DL_GENERIC", pat |-> DL_GENERIC],
    [label |-> "CREDIT_CARD", pat |-> CREDIT_CARD],
    [label |-> "CVV", pat |-> CVV],
    [label |-> "BANK_ACC", pat |-> BANK_ACC],
    [label |-> "DOB", pat |-> DOB],
    [label |-> "ICD10", pat |-> ICD10],
    [label |-> "IP", pat |-> IP],
    [label |-> "MAC", pat |-> MAC],
    [label |-> "URL", pat |-> URL],
    [label |-> "INSURANCE_ID", pat |-> INSURANCE_ID] >>

ADDRESS_HINT_WORDS == {
    <<"a", "d", "d", "r", "e", "s", "s">>,
    <<"a", "d", "d", "r", ".">>,
    <<"s", "t", "r", "e", "e", "t">>,
    <<"s", "t", ".">>,
    <<"r", "o", "a", "d">>,
    <<"r", "d", ".">>,
    <<"l", "a", "n", "e">>,
    <<"l", "n", ".">>,
    <<"a", "v", "e", "n", "u", "e">>,
    <<"a", "v", "e", ".">>,
    <<"b", "o", "u", "l", "e", "v", "a", "r", "d">>,
    <<"b", "l", "v", "d">>,
    <<"c", "i", "t", "y">>,
    <<"s", "t", "a", "t", "e">>,
    <<"z", "i", "p">>,
    <<"p", "i", "n", "c", "o", "d", "e">>,
    <<"p", "i", "n">> }

\* \d{1,5}\s+[A-Za-z0-9.\- ]+,\s*[A-Za-z.\- ]+[, ]+\w{2}\s+\d{4,6}
StreetAddress == <<Rep(<<D>>, 1, 5), Plus(<<WS>>),
                   Plus(<<Cls(Letter \cup Digit \cup {".", "-", " "})>>),
                   Cls({","}), Star(<<WS>>),
                   Plus(<<Cls(Letter \cup {".", "-", " "})>>),
                   Plus(<<Cls({",", " "})>>),
                   Rep(<<Cls(Word)>>, 2, 2), Plus(<<WS>>), Rep(<<D>>, 4, 6)>>

MaxAddressLen == 200                 \* line.strip()[:200]
MinAddressLen == 6                   \* len(line.strip()) > 6

\* the findings of one pattern: for m in pat.finditer(text)
PatternFindings(p, text) ==
    LET ms == FindIter(p.pat, text, 1)
    IN [k \in 1..Len(ms) |->
           [label |-> p.label,
            span |-> <<ms[k].start - 1, ms[k].end - 1>>,
            matched |-> SubSeq(text, ms[k].start, ms[k].end - 1)]]

RECURSIVE AllPatternFindings(_, _)
AllPatternFindings(ps, text) ==
    IF Len(ps) = 0 THEN <<>>
    ELSE PatternFindings(Head(ps), text) \o AllPatternFindings(Tail(ps), text)

\* the address heuristic of one line
IsAddressLine(line) ==
    /\ \/ \E k \in ADDRESS_HINT_WORDS : Contains(LowerStr(line), k)
       \/ Search(StreetAddress, line)
    /\ Len(Strip(line)) > MinAddressLen

RECURSIVE AddressFindings(_)
AddressFindings(ls) ==
    IF Len(ls) = 0 THEN <<>>
    ELSE (IF IsAddressLine(Head(ls))
          THEN <<[label |-> "ADDRESS", span |-> <<0, 0>>,
                  matched |-> Prefix(Strip(Head(ls)), MaxAddressLen)]>>
          ELSE <<>>) \o AddressFindings(Tail(ls))

regex_entities(text) ==
    AllPatternFindings(PATTERNS, text) \o AddressFindings(SplitLines(text))

----------------------------------------------------------------------------
(* detect_utils.py: align_text_findings_to_boxes                           *)

\* re.sub(r"\W+", "", s.lower())
Clean(s) == SelectSeq(LowerStr(s), LAMBDA c : c \in Word)

MinCleanLen == 4                     \* len(t_clean) >= 4

SentinelBox == <<0, 0, 0, 0>>

\* first index of a line satisfying P, 0 if none: for line in ocr_lines ... break
FirstLine(lines, P(_)) ==
    IF \E i \in 1..Len(lines) : P(lines[i])
    THEN CHOOSE i \in 1..Len(lines) : P(lines[i]) /\ \A j \in 1..(i - 1) : ~P(lines[j])
    ELSE 0

ExactHit(target, line) == Len(target) > 0 /\ Contains(line.text, target)

\* CleanHit without the test of the length of t_clean
CleanHitAnyLength(target, line) ==
    LET t_clean == Clean(target)
        l_clean == Clean(line.text)
    IN Len(t_clean) > 0 /\ Contains(l_clean, t_clean)

CleanHit(target, line) ==
    LET t_clean == Clean(target)
        l_clean == Clean(line.text)
    IN Len(t_clean) > 0 /\ Contains(l_clean, t_clean) /\ Len(t_clean) >= MinCleanLen

\* AlignOne with both tests made in one pass over the lines
AlignOneSinglePass(tf, lines) ==
    LET target == tf.matched
        hit == FirstLine(lines, LAMBDA l : ExactHit(target, l) \/ CleanHit(target, l))
    IN [label |-> tf.label,
        box |-> IF hit # 0 THEN lines[hit].box ELSE SentinelBox,
        matched |-> target]

\* the body of the loop over text_findings, for one finding tf
AlignOne(tf, lines) ==
    LET target == tf.matched
        exact == FirstLine(lines, LAMBDA l : ExactHit(target, l))
        clean == FirstLine(lines, LAMBDA l : CleanHit(target, l))
        box == IF exact # 0 THEN lines[exact].box
               ELSE IF clean # 0 THEN lines[clean].box
               ELSE SentinelBox
    IN [label |-> tf.label, box |-> box, matched |-> target]

\* the aligner with the final fallback left out: unplaced findings are dropped
AlignDroppingUnplaced(tfs, lines) ==
    SelectSeq([k \in 1..Len(tfs) |-> AlignOne(tfs[k], lines)],
              LAMBDA b : b.box # SentinelBox)

align_text_findings_to_boxes(tfs, lines) ==
    [k \in 1..Len(tfs) |-> AlignOne(tfs[k], lines)]

----------------------------------------------------------------------------
(* redact_utils.py: apply_redactions_cv, and ocr_utils.py: the conversions  *)
(* An image is [w, h, px] with px a function from <<y, x>> to a colour       *)
(* triple: <<b, g, r>> in an OpenCV array, <<r, g, b>> in a PIL image.       *)

Max(a, b) == IF a >= b THEN a ELSE b
Min(a, b) == IF a <= b THEN a ELSE b

Pixels(img) == DOMAIN img.px

\* cv2.cvtColor(..., COLOR_BGR2RGB) and COLOR_RGB2BGR: the channels reversed
SwapChannels(c) == <<c[3], c[2], c[1]>>

cv_to_pil(img) == [img EXCEPT !.px = [p \in Pixels(img) |-> SwapChannels(img.px[p])]]
pil_to_cv(img) == [img EXCEPT !.px = [p \in Pixels(img) |-> SwapChannels(img.px[p])]]

\* int(0.03 * v): the product truncated towards zero
Pad(v) == IF v >= 0 THEN (3 * v) \div 100 ELSE -((3 * (-v)) \div 100)

\* lines 41-45: the corners of the expanded box
CornerX0(box) == Max(0, box[1] - Pad(box[3]))
CornerY0(box) == Max(0, box[2] - Pad(box[4]))
CornerX1(box, W) == Min(W, box[1] + box[3] + Pad(box[3]))
CornerY1(box, H) == Min(H, box[2] + box[4] + Pad(box[4]))

Black == <<0, 0, 0>>

\* cv2.rectangle with thickness=1: the outline alone
OutlinedRectangle(img, x0, y0, x1, y1) ==
    {p \in Pixels(img) : /\ Min(x0, x1) <= p[2] /\ p[2] <= Max(x0, x1)
                         /\ Min(y0, y1) <= p[1] /\ p[1] <= Max(y0, y1)
                         /\ \/ p[2] \in {x0, x1}
                            \/ p[1] \in {y0, y1}}

\* cv2.rectangle(out, (x0, y0), (x1, y1), (0, 0, 0), thickness=-1): the filled
\* rectangle spans both corners, each included, in either order, cut to the image
FilledRectangle(img, x0, y0, x1, y1) ==
    {p \in Pixels(img) : /\ Min(x0, x1) <= p[2] /\ p[2] <= Max(x0, x1)
                         /\ Min(y0, y1) <= p[1] /\ p[1] <= Max(y0, y1)}

\* a slice bound v on an axis of length n: negative bounds count from the end
SliceBound(v, n) == IF v < 0 THEN Max(v + n, 0) ELSE Min(v, n)

\* the indices a slice a:b selects on an axis of length n
SliceIndices(a, b, n) == SliceBound(a, n)..(SliceBound(b, n) - 1)

\* out[y0:y1, x0:x1]
Roi(img, x0, y0, x1, y1) ==
    {p \in Pixels(img) : /\ p[2] \in SliceIndices(x0, x1, img.w)
                         /\ p[1] \in SliceIndices(y0, y1, img.h)}

MinKernel == 15                      \* max(15, ...)
KernelStep == 10                     \* (x1 - x0) // 10

\* the kernel size without its floor
KernelNoFloor(width) == (Max(1, width \div KernelStep) \div 2) * 2 + 1

\* k = max(15, (max(1, (x1 - x0) // 10) // 2) * 2 + 1)
Kernel(width) == Max(MinKernel, (Max(1, width \div KernelStep) \div 2) * 2 + 1)

\* the sum of channel c over the pixels of row y in columns lo..hi
RECURSIVE SumCols(_, _, _, _, _)
SumCols(img, y, lo, hi, c) ==
    IF lo > hi THEN 0
    ELSE IF lo = hi THEN img.px[<<y, lo>>][c]
    ELSE LET mid == (lo + hi) \div 2
         IN SumCols(img, y, lo, mid, c) + SumCols(img, y, mid + 1, hi, c)

\* the sum of channel c over rows lo..hi of the columns xs
RECURSIVE SumRows(_, _, _, _, _)
SumRows(img, xs, lo, hi, c) ==
    IF lo > hi THEN 0
    ELSE IF lo = hi THEN SumCols(img, lo, Smallest(xs), Largest(xs), c)
    ELSE LET mid == (lo + hi) \div 2
         IN SumRows(img, xs, lo, mid, c) + SumRows(img, xs, mid + 1, hi, c)

\* cv2.GaussianBlur(roi, (k, k), 0) with its weights taken as uniform over the
\* region xs x ys: each channel of every pixel of it becomes the region's mean
Blurred(img, xs, ys) ==
    LET mean(c) == SumRows(img, xs, Smallest(ys), Largest(ys), c)
                       \div (Cardinality(xs) * Cardinality(ys))
    IN <<mean(1), mean(2), mean(3)>>

\* det.get("box", [0, 0, 0, 0])
DetBox(det) == IF "box" \in DOMAIN det THEN det.box ELSE <<0, 0, 0, 0>>

\* the skip test with the comparisons turned to `< 0'
SkippedIfNegative(box) == box[3] < 0 \/ box[4] < 0

\* if not box or box[2] == 0 or box[3] == 0: continue
Skipped(box) == box[3] = 0 \/ box[4] = 0

\* RedactOne with the mode test never taken: every region is blurred
RedactOneAlwaysBlur(out, det, m) ==
    LET box == DetBox(det)
        x0 == CornerX0(box)
        y0 == CornerY0(box)
        x1 == CornerX1(box, out.w)
        y1 == CornerY1(box, out.h)
        roi == Roi(out, x0, y0, x1, y1)
    IN IF Skipped(box) \/ roi = {} THEN out
       ELSE LET blurred == Blurred(out, SliceIndices(x0, x1, out.w),
                                   SliceIndices(y0, y1, out.h))
            IN [out EXCEPT !.px = [p \in Pixels(out) |->
                   IF p \in roi THEN blurred ELSE out.px[p]]]

\* one iteration of the loop over detections, on the working copy out
RedactOne(out, det, m) ==
    LET box == DetBox(det)
        x0 == CornerX0(box)
        y0 == CornerY0(box)
        x1 == CornerX1(box, out.w)
        y1 == CornerY1(box, out.h)
        roi == Roi(out, x0, y0, x1, y1)
    IN IF Skipped(box) THEN out
       ELSE IF m = "black"
       THEN [out EXCEPT !.px = [p \in Pixels(out) |->
                IF p \in FilledRectangle(out, x0, y0, x1, y1) THEN Black ELSE out.px[p]]]
       ELSE IF roi = {} THEN out
       ELSE LET blurred == Blurred(out, SliceIndices(x0, x1, out.w),
                                   SliceIndices(y0, y1, out.h))
            IN [out EXCEPT !.px = [p \in Pixels(out) |->
                   IF p \in roi THEN blurred ELSE out.px[p]]]

RECURSIVE RedactAll(_, _, _)
RedactAll(out, dets, m) ==
    IF Len(dets) = 0 THEN out
    ELSE RedactAll(RedactOne(out, Head(dets), m), Tail(dets), m)

apply_redactions_cv(img, dets, m) == cv_to_pil(RedactAll(img, dets, m))

\* the kernel sizes the call computes, one for each region it blurs
RECURSIVE KernelsUsed(_, _, _)
KernelsUsed(img, dets, m) ==
    IF Len(dets) = 0 THEN <<>>
    ELSE LET box == DetBox(Head(dets))
             x0 == CornerX0(box)
             x1 == CornerX1(box, img.w)
             roi == Roi(img, x0, CornerY0(box), x1, CornerY1(box, img.h))
         IN (IF Skipped(box) \/ m = "black" \/ roi = {} THEN <<>>
             ELSE <<[box |-> box, width |-> x1 - x0, k |-> Kernel(x1 - x0)]>>)
            \o KernelsUsed(img, Tail(dets), m)

----------------------------------------------------------------------------
(* app.py, process_one_pil, lines 101-105: the text part of a page          *)

\* full_text = "\n".join([l["text"] for l in lines])
PageText(lines) == Join([i \in 1..Len(lines) |-> lines[i].text], <<"\n">>)

alignVars == <<text_findings, ocr_lines, boxes, full_text, apc>>
redactVars == <<cv_img, detections, mode, redacted, redacted2, kernels, rpc>>
appVars == <<uploads, opts, model_installed, _NLP, pc, crash, fi, pno, all_logs,
             redacted_images_global, real_redacted_images, bundle, total_units,
             done_units>>
vars == <<alignVars, redactVars, appVars>>

AlignIdle ==
    /\ text_findings = <<>>
    /\ ocr_lines = <<>>
    /\ boxes = <<>>
    /\ full_text = <<>>
    /\ apc = "idle"

RedactIdle ==
    /\ cv_img = <<>>
    /\ detections = <<>>
    /\ mode = "blur"
    /\ redacted = <<>>
    /\ redacted2 = <<>>
    /\ kernels = <<>>
    /\ rpc = "idle"

AppIdle ==
    /\ uploads = <<>>
    /\ opts = <<>>
    /\ model_installed = TRUE
    /\ _NLP = "None"
    /\ pc = "idle"
    /\ crash = "None"
    /\ fi = 0
    /\ pno = 0
    /\ all_logs = <<>>
    /\ redacted_images_global = <<>>
    /\ real_redacted_images = <<>>
    /\ bundle = "None"
    /\ total_units = 0
    /\ done_units = 0

\* all sequences over S of length lo..hi
SeqsOf(S, lo, hi) == UNION {[1..n -> S] : n \in lo..hi}

----------------------------------------------------------------------------
(* Images and boxes of the redaction runs                                   *)

ImgW == 4                            \* width of the small images
ImgH == 3                            \* height of the small images

White == <<255, 255, 255>>

\* a BGR image whose pixels all differ, and a white one
Gradient(W, H) ==
    [w |-> W, h |-> H,
     px |-> [p \in (0..(H - 1)) \X (0..(W - 1)) |-> <<10 * (p[2] + 1), 30 * (p[1] + 1), 200>>]]

Uniform(W, H, c) ==
    [w |-> W, h |-> H, px |-> [p \in (0..(H - 1)) \X (0..(W - 1)) |-> c]]

ImagePool == {Gradient(ImgW, ImgH), Uniform(ImgW, ImgH, White)}

Modes == {"blur", "black"}

----------------------------------------------------------------------------
(* The aligner on arbitrary findings and lines, and the redaction of one    *)
(* of the findings it returns                                               *)

MaxFindings == 2                     \* findings per call
MaxLines == 2                        \* OCR lines per page

FindingPool == {
    \* verbatim in one line, cleaned in others
    [label |-> "EMAIL", matched |-> <<"A", "b", "-", "c", "d">>],
    \* found only after cleaning
    [label |-> "PERSON", matched |-> <<"a", "b", "c", "d">>],
    \* cleans to three characters
    [label |-> "PERSON", matched |-> <<"a", "b", ".", "c">>],
    \* in no line
    [label |-> "EMAIL", matched |-> <<"w", "x", "y", "z">>],
    \* in no line, and too short once cleaned
    [label |-> "EMAIL", matched |-> <<"q", "@", "r">>],
    \* an empty match
    [label |-> "ORG", matched |-> <<>>] }

LineTextPool == {
    <<"a", "b", " ", "c", "d">>,
    <<"x", " ", "A", "b", "-", "c", "d">>,
    <<"A", "B", ".", "C">>,
    <<"z", "z">> }

\* OCR lines are stacked: the i-th line of a page has the i-th box
SmallLineBox(i) == <<1, i - 1, 2, 1>>

InitAlign ==
    /\ text_findings \in SeqsOf(FindingPool, 0, MaxFindings)
    /\ \E n \in 0..MaxLines : \E ts \in [1..n -> LineTextPool] :
           ocr_lines = [i \in 1..n |-> [text |-> ts[i], box |-> SmallLineBox(i)]]
    /\ boxes = <<>>
    /\ full_text = <<>>
    /\ apc = "start"
    /\ RedactIdle
    /\ AppIdle

\* boxes = align_text_findings_to_boxes(text_findings, ocr_lines)
Align ==
    /\ apc = "start"
    /\ boxes' = align_text_findings_to_boxes(text_findings, ocr_lines)
    /\ apc' = "aligned"
    /\ UNCHANGED <<text_findings, ocr_lines, full_text, redactVars, appVars>>

\* apply_redactions_cv on a list holding one of the aligned findings
RedactAligned ==
    /\ apc = "aligned"
    /\ rpc = "idle"
    /\ \E k \in 1..Len(boxes) : \E img \in {Gradient(ImgW, ImgH)} : \E m \in Modes :
          /\ cv_img' = img
          /\ detections' = <<boxes[k]>>
          /\ mode' = m
          /\ redacted' = apply_redactions_cv(img, <<boxes[k]>>, m)
          /\ kernels' = KernelsUsed(img, <<boxes[k]>>, m)
    /\ rpc' = "once"
    /\ UNCHANGED <<alignVars, redacted2, appVars>>

NextAlign == Align \/ RedactAligned

SpecAlign == InitAlign /\ [][NextAlign]_vars

----------------------------------------------------------------------------
(* apply_redactions_cv on arbitrary boxes                                   *)

MaxDets == 2                         \* findings per call

BoxPool == {
    <<1, 1, 2, 1>>,                  \* inside the image
    <<0, 0, 0, 0>>,                  \* the sentinel
    <<1, 1, 0, 2>>,                  \* no width
    <<0, 0, ImgW, ImgH>>,            \* the whole image
    <<2, 1, 5, 4>>,                  \* over the right and bottom edges
    <<1, 0, 34, 1>>,                 \* wide enough for one pixel of padding
    <<-5, 0, 2, 2>>,                 \* wholly left of the image
    <<ImgW + 2, 1, 2, 1>>,           \* wholly right of the image
    <<3, 2, -2, -1>> }               \* inverted

DetPool == [label : {"FACE"}, box : BoxPool]

InitRedact ==
    /\ cv_img \in ImagePool
    /\ detections \in SeqsOf(DetPool, 0, MaxDets)
    /\ mode \in Modes
    /\ redacted = <<>>
    /\ redacted2 = <<>>
    /\ kernels = <<>>
    /\ rpc = "start"
    /\ AlignIdle
    /\ AppIdle

\* redacted = apply_redactions_cv(cv_img, detections, mode)
Redact ==
    /\ rpc = "start"
    /\ redacted' = apply_redactions_cv(cv_img, detections, mode)
    /\ kernels' = KernelsUsed(cv_img, detections, mode)
    /\ rpc' = "once"
    /\ UNCHANGED <<cv_img, detections, mode, redacted2, alignVars, appVars>>

\* the same call on the image the first call returned
RedactAgain ==
    /\ rpc = "once"
    /\ redacted2' = apply_redactions_cv(pil_to_cv(redacted), detections, mode)
    /\ rpc' = "twice"
    /\ UNCHANGED <<cv_img, detections, mode, redacted, kernels, alignVars, appVars>>

NextRedact == Redact \/ RedactAgain

SpecRedact == InitRedact /\ [][NextRedact]_vars

----------------------------------------------------------------------------
(* Blur on wide one-row images: the kernel sizes                            *)

MaxWideDets == 2                     \* findings per call

WideImages == {Uniform(200, 1, White), Uniform(320, 1, White)}

\* boxes of one row that meet the image
WideBoxPool == {<<x, 0, w, 1>> : x \in {-20, 0, 9}, w \in {50, 120, 300}}

InitKernel ==
    /\ cv_img \in WideImages
    /\ detections \in SeqsOf([label : {"FACE"}, box : WideBoxPool], 1, MaxWideDets)
    /\ mode = "blur"
    /\ redacted = <<>>
    /\ redacted2 = <<>>
    /\ kernels = <<>>
    /\ rpc = "start"
    /\ AlignIdle
    /\ AppIdle

NextKernel == Redact

SpecKernel == InitKernel /\ [][NextKernel]_vars

----------------------------------------------------------------------------
(* The text part of process_one_pil on OCR lines cut from one sentence      *)

MaxTextLines == 2                    \* OCR lines per page

Sentence == << <<"C", "o", "n", "t", "a", "c", "t", " ">>,
               <<"j", "a", "n", "e", "@", "e", "x", "a", "m", "p", "l", "e", ".", "c", "o", "m">>,
               <<" ", "o", "r", " ", "c", "a", "l", "l", " ">>,
               <<"5", "5", "5", "-", "1", "2", "3", "-", "4", "5", "6", "7">> >>

\* the members of seq whose index is in I, in order
RECURSIVE Pick(_, _, _)
Pick(seq, I, k) ==
    IF k > Len(seq) THEN <<>>
    ELSE (IF k \in I THEN <<seq[k]>> ELSE <<>>) \o Pick(seq, I, k + 1)

\* the texts an OCR line can carry: the sentence with some of its parts left out
SentenceTexts == {Concat(Pick(Sentence, I, 1)) : I \in (SUBSET (1..Len(Sentence))) \ {{}}}

\* OCR lines are stacked: the i-th line of a page has the i-th box
LineBox(i) == <<10, 10 + 30 * (i - 1), 300, 20>>

InitText ==
    /\ \E n \in 1..MaxTextLines : \E ts \in [1..n -> SentenceTexts] :
           ocr_lines = [i \in 1..n |-> [text |-> ts[i], box |-> LineBox(i)]]
    /\ text_findings = <<>>
    /\ boxes = <<>>
    /\ full_text = <<>>
    /\ apc = "start"
    /\ RedactIdle
    /\ AppIdle

\* process_one_pil, lines 102-105
DetectText ==
    /\ apc = "start"
    /\ full_text' = PageText(ocr_lines)
    /\ text_findings' = regex_entities(PageText(ocr_lines))
    /\ boxes' = align_text_findings_to_boxes(text_findings', ocr_lines)
    /\ apc' = "aligned"
    /\ UNCHANGED <<ocr_lines, redactVars, appVars>>

NextText == DetectText

SpecText == InitText /\ [][NextText]_vars

----------------------------------------------------------------------------
(* detect_utils.py: get_nlp and ner_findings                                *)

\* get_nlp(enable_ner) with the cache _NLP = cache, the model loadable or not,
\* and the download of its fallback succeeding or not: the model returned and
\* the state left behind
get_nlp(enable_ner, cache, installed, download_ok) ==
    IF ~enable_ner THEN [nlp |-> "None", cache |-> cache, installed |-> installed]
    ELSE IF cache # "None" THEN [nlp |-> cache, cache |-> cache, installed |-> installed]
    ELSE IF installed THEN [nlp |-> "model", cache |-> "model", installed |-> TRUE]
    ELSE IF download_ok THEN [nlp |-> "model", cache |-> "model", installed |-> TRUE]
    ELSE [nlp |-> "None", cache |-> cache, installed |-> FALSE]

EntityLabels == {"PERSON", "GPE", "ORG"}

\* ner_findings once get_nlp has returned nlp; ents are the entities doc.ents
\* of the page's text, records [label, matched]
ner_findings(text, lines, nlp, ents) ==
    IF nlp = "None" \/ Len(text) = 0 THEN <<>>
    ELSE align_text_findings_to_boxes(
             SelectSeq(ents, LAMBDA e : e.label \in EntityLabels), lines)

----------------------------------------------------------------------------
(* app.py: the pages and files of a run                                     *)

MaxFiles == 2                        \* uploaded files per run

AppLine(text, i) == [text |-> text, box |-> SmallLineBox(i)]

\* A page as the collaborators deliver it: the PIL image (RGB), the lines
\* ocr_with_boxes returns, the entities, faces, signatures and QR codes the
\* detectors find, and whether one of those calls raises an exception.
PageA == [img |-> cv_to_pil(Gradient(ImgW, ImgH)),
          lines |-> <<AppLine(<<"a", "@", "b", ".", "c", "o">>, 1)>>,
          ents |-> <<>>,
          faces |-> <<[type |-> "FACE", box |-> <<2, 1, 2, 2>>]>>,
          sigs |-> <<>>,
          qrs |-> <<>>,
          raises |-> FALSE]

PageB == [img |-> Uniform(ImgW, ImgH, White),
          lines |-> <<AppLine(<<"A", "n", "n", " ", "L", "e", "e">>, 1),
                      AppLine(<<"a", "@", "b", ".", "c", "o">>, 2)>>,
          ents |-> <<[label |-> "PERSON", matched |-> <<"A", "n", "n", " ", "L", "e", "e">>],
                     [label |-> "DATE", matched |-> <<"c", "o">>]>>,
          faces |-> <<>>,
          sigs |-> <<[type |-> "SIGNATURE", box |-> <<0, 2, 3, 1>>]>>,
          qrs |-> <<>>,
          raises |-> FALSE]

\* a page that shows the same address on two lines
PageC == [img |-> Uniform(ImgW, ImgH, White),
          lines |-> <<AppLine(<<"a", "@", "b", ".", "c", "o">>, 1),
                      AppLine(<<"t", "o", " ", "a", "@", "b", ".", "c", "o">>, 2)>>,
          ents |-> <<>>,
          faces |-> <<>>,
          sigs |-> <<>>,
          qrs |-> <<>>,
          raises |-> FALSE]

PageBad == [PageA EXCEPT !.raises = TRUE]

PagePool == {PageA, PageB, PageC, PageBad}

\* text_boxes of process_one_pil for the lines of each page of the pool
TextBoxesOf ==
    [ls \in {pg.lines : pg \in PagePool} |->
        align_text_findings_to_boxes(regex_entities(PageText(ls)), ls)]

\* An uploaded file: its name and extension, the pages (or sheets) its
\* ingestion yields, and whether load_pages_from_pdf can read it.
FilePool == {
    [name |-> "a.png", ext |-> ".png", pages |-> <<PageA>>, sheets |-> <<>>, ok |-> TRUE],
    [name |-> "b.pdf", ext |-> ".pdf", pages |-> <<PageA, PageB>>, sheets |-> <<>>, ok |-> TRUE],
    [name |-> "c.pdf", ext |-> ".pdf", pages |-> <<>>, sheets |-> <<>>, ok |-> FALSE],
    [name |-> "d.xlsx", ext |-> ".xlsx", pages |-> <<PageB, PageA>>,
     sheets |-> <<"S1", "S2">>, ok |-> TRUE],
    [name |-> "e.docx", ext |-> ".docx", pages |-> <<PageC>>, sheets |-> <<>>, ok |-> TRUE],
    [name |-> "f.jpg", ext |-> ".jpg", pages |-> <<PageBad>>, sheets |-> <<>>, ok |-> TRUE],
    [name |-> "g.txt", ext |-> ".txt", pages |-> <<>>, sheets |-> <<>>, ok |-> TRUE] }

ImageExts == {".png", ".jpg", ".jpeg"}
SupportedExts == ImageExts \cup {".pdf", ".docx", ".xlsx"}

\* The options of the page, and the checkboxes of the detection table the user
\* unticks (by position, the same on every page; none under auto_redact, which
\* shows no table).
OptionPool ==
    {o \in [redact_method : Modes, enable_ner : BOOLEAN, auto_redact : BOOLEAN,
            preview_mode : BOOLEAN, enable_faces : BOOLEAN,
            enable_signatures : BOOLEAN, unticked : {{}, {1}, {2}}] :
        o.auto_redact => o.unticked = {}}

\* the name and the page_tag process_one_pil is called with for page n of f
NameOf(f, n) == IF f.ext = ".xlsx" THEN <<f.name, f.sheets[n]>> ELSE <<f.name>>
TagOf(f, n) == IF f.ext = ".pdf" THEN <<"p", n>> ELSE <<>>

\* lines 99-163: the image and the log entry process_one_pil returns for the
\* image pil of page pg; nlp is what get_nlp returned.  The timestamp of the
\* log entry is left out.  selected_boxes is evaluated once and the value is
\* what both the redaction and the log entry receive, as with the local
\* variable of the code.
process_one_pil(pil, pg, name, page_tag, nlp) ==
    LET cv == pil_to_cv(pil)
        lines == pg.lines
        text == PageText(lines)
        text_boxes == TextBoxesOf[lines]
        ner_boxes == ner_findings(text, lines, nlp, pg.ents)
        face_boxes == IF opts.enable_faces THEN pg.faces ELSE <<>>
        sig_boxes == IF opts.enable_signatures THEN pg.sigs ELSE <<>>
        qr_boxes == pg.qrs
        merged == text_boxes \o ner_boxes \o face_boxes \o sig_boxes \o qr_boxes
        selected_boxes == IF opts.auto_redact THEN merged
                          ELSE Pick(merged, (1..Len(merged)) \ opts.unticked, 1)
        redacted_pil(selected) == IF opts.preview_mode THEN pil
                                  ELSE apply_redactions_cv(cv, selected, opts.redact_method)
    IN CHOOSE r \in {[image |-> redacted_pil(selected),
                      log |-> [file |-> name, detections |-> merged,
                               redacted |-> selected, mode |-> opts.redact_method,
                               page |-> page_tag]] : selected \in {selected_boxes}} : TRUE

\* all_logs.insert(0, log) in place of all_logs.append(log)
PrependLog(logs, log) == <<log>> \o logs

\* all_logs.append(log), redacted_images_global.append(red_pil)
AppendLog(logs, log) == Append(logs, log)
AppendImage(images, image) == Append(images, image)

\* lines 169-180: total_units
RECURSIVE TotalUnits(_)
TotalUnits(files) ==
    IF Len(files) = 0 THEN 0
    ELSE (IF Head(files).ext = ".pdf" /\ Head(files).ok THEN Len(Head(files).pages) ELSE 1)
         + TotalUnits(Tail(files))

InitApp ==
    /\ uploads \in SeqsOf(FilePool, 0, MaxFiles)
    /\ opts \in OptionPool
    /\ model_installed \in BOOLEAN
    /\ _NLP = "None"
    /\ pc = "boot"
    /\ crash = "None"
    /\ fi = 0
    /\ pno = 0
    /\ all_logs = <<>>
    /\ redacted_images_global = <<>>
    /\ real_redacted_images = <<>>
    /\ bundle = "None"
    /\ total_units = 0
    /\ done_units = 0
    /\ AlignIdle
    /\ RedactIdle

idleVars == <<alignVars, redactVars>>

\* app.py lines 10-12: import spacy; nlp = spacy.load("en_core_web_sm")
Startup ==
    /\ pc = "boot"
    /\ IF model_installed
       THEN pc' = "ready" /\ crash' = crash
       ELSE pc' = "crashed" /\ crash' = "spacy.load"
    /\ UNCHANGED <<uploads, opts, model_installed, _NLP, fi, pno, all_logs,
                   redacted_images_global, real_redacted_images, bundle, total_units,
                   done_units, idleVars>>

\* lines 166-190: the button is pressed with files uploaded
Begin ==
    /\ pc = "ready"
    /\ Len(uploads) > 0
    /\ total_units' = TotalUnits(uploads)
    /\ done_units' = 0
    /\ all_logs' = <<>>
    /\ redacted_images_global' = <<>>
    /\ fi' = 1
    /\ pno' = 1
    /\ pc' = "loop"
    /\ UNCHANGED <<uploads, opts, model_installed, _NLP, crash, real_redacted_images,
                   bundle, idleVars>>

InLoop == pc = "loop" /\ fi <= Len(uploads)

\* the loop variables after page n of file fi: the next page, the next file,
\* or the end of the loop
Advance(n) ==
    IF n < Len(uploads[fi].pages)
    THEN fi' = fi /\ pno' = n + 1 /\ pc' = "loop"
    ELSE /\ fi' = fi + 1
         /\ pno' = 1
         /\ pc' = IF fi < Len(uploads) THEN "loop" ELSE "export"

\* lines 197-249: one call of process_one_pil and the two appends after it
ProcessPage ==
    /\ InLoop
    /\ uploads[fi].ext \in SupportedExts
    /\ uploads[fi].ok
    /\ ~uploads[fi].pages[pno].raises
    /\ LET f == uploads[fi]
           pg == f.pages[pno]
       IN \E download_ok \in BOOLEAN :
            LET got == get_nlp(opts.enable_ner, _NLP, model_installed, download_ok)
                r == process_one_pil(pg.img, pg, NameOf(f, pno), TagOf(f, pno), got.nlp)
            IN /\ _NLP' = got.cache
               /\ model_installed' = got.installed
               /\ redacted_images_global' = AppendImage(redacted_images_global, r.image)
               /\ all_logs' = AppendLog(all_logs, r.log)
    /\ done_units' = done_units + 1
    /\ Advance(pno)
    /\ UNCHANGED <<uploads, opts, crash, real_redacted_images, bundle, total_units,
                   idleVars>>

\* an exception raised inside process_one_pil: nothing catches it
PageRaises ==
    /\ InLoop
    /\ uploads[fi].ext \in SupportedExts
    /\ uploads[fi].ok
    /\ uploads[fi].pages[pno].raises
    /\ pc' = "crashed"
    /\ crash' = "process_one_pil"
    /\ UNCHANGED <<uploads, opts, model_installed, _NLP, fi, pno, all_logs,
                   redacted_images_global, real_redacted_images, bundle, total_units,
                   done_units, idleVars>>

\* lines 203-205: the PDF cannot be read; the exception is caught only where
\* the units are counted (lines 174-178)
LoadRaises ==
    /\ InLoop
    /\ uploads[fi].ext = ".pdf"
    /\ ~uploads[fi].ok
    /\ pc' = "crashed"
    /\ crash' = "load_pages_from_pdf"
    /\ UNCHANGED <<uploads, opts, model_installed, _NLP, fi, pno, all_logs,
                   redacted_images_global, real_redacted_images, bundle, total_units,
                   done_units, idleVars>>

\* lines 251-253: st.warning and progress_cb
SkipUnsupported ==
    /\ InLoop
    /\ uploads[fi].ext \notin SupportedExts
    /\ done_units' = done_units + 1
    /\ Advance(1)
    /\ UNCHANGED <<uploads, opts, model_installed, _NLP, crash, all_logs,
                   redacted_images_global, real_redacted_images, bundle, total_units,
                   idleVars>>

\* the export with the branch of preview_mode left out: the stored images as
\* they are
StoredImages == redacted_images_global

\* lines 257-264: the pages that go into the PDF
RealRedactedImages ==
    IF opts.preview_mode
    THEN [i \in 1..Min(Len(all_logs), Len(redacted_images_global)) |->
             apply_redactions_cv(pil_to_cv(redacted_images_global[i]),
                                 all_logs[i].redacted, opts.redact_method)]
    ELSE redacted_images_global

\* lines 255-286
Export ==
    /\ pc = "export"
    /\ IF Len(redacted_images_global) > 0
       THEN /\ real_redacted_images' = RealRedactedImages
            /\ bundle' = [pdf |-> RealRedactedImages, log_json |-> all_logs]
       ELSE /\ real_redacted_images' = real_redacted_images
            /\ bundle' = "None"
    /\ pc' = "done"
    /\ UNCHANGED <<uploads, opts, model_installed, _NLP, crash, fi, pno, all_logs,
                   redacted_images_global, total_units, done_units, idleVars>>

NextApp == Startup \/ Begin \/ ProcessPage \/ PageRaises \/ LoadRaises
               \/ SkipUnsupported \/ Export

SpecApp == InitApp /\ [][NextApp]_vars

----------------------------------------------------------------------------
(* The claims                                                               *)

Aligned == apc = "aligned"
Redacted == rpc \in {"once", "twice"}

\* the lines whose text contains s as it stands
VerbatimLines(s) == {i \in 1..Len(ocr_lines) : Contains(ocr_lines[i].text, s)}

\* s with its letters lowercased and everything but letters, digits and "_" removed
Normalized(s) == SelectSeq(s, LAMBDA c : c \in Letter \cup Digit \cup {"_"})

NormalizedLower(s) == Normalized([i \in 1..Len(s) |-> ToLower(s[i])])

\* the lines whose normalized text contains the normalized s
NormalizedLines(s) ==
    {i \in 1..Len(ocr_lines) :
        Contains(NormalizedLower(ocr_lines[i].text), NormalizedLower(s))}

\* C1: a finding whose non-empty matched string occurs verbatim in some OCR
\* line is returned with the box of the first such line, also when an earlier
\* line matches only after normalization.
C1_ExactFirstLine ==
    Aligned =>
        \A k \in 1..Len(text_findings) :
            LET m == text_findings[k].matched
            IN (Len(m) > 0 /\ VerbatimLines(m) # {})
                   => /\ k <= Len(boxes)
                      /\ boxes[k].box = ocr_lines[Smallest(VerbatimLines(m))].box

\* a finding found verbatim in the second line only, while the first line
\* contains it after normalization
C1_Witness ==
    /\ Aligned
    /\ Len(ocr_lines) = 2
    /\ \E k \in 1..Len(text_findings) :
          /\ VerbatimLines(text_findings[k].matched) = {2}
          /\ Len(NormalizedLower(text_findings[k].matched)) >= 4
          /\ 1 \in NormalizedLines(text_findings[k].matched)
          /\ boxes[k].box = ocr_lines[2].box
          /\ ocr_lines[1].box # ocr_lines[2].box

\* C2: the aligner returns one finding per input finding, in order, the i-th
\* with the i-th input's label and matched string, also with no OCR line.
C2_OneToOne ==
    Aligned =>
        /\ Len(boxes) = Len(text_findings)
        /\ \A k \in 1..Len(text_findings) :
              /\ boxes[k].label = text_findings[k].label
              /\ boxes[k].matched = text_findings[k].matched

\* two different findings aligned against an empty list of lines
C2_Witness ==
    /\ Aligned
    /\ Len(ocr_lines) = 0
    /\ Len(text_findings) = 2
    /\ text_findings[1] # text_findings[2]
    /\ Len(boxes) = 2

\* s occurs in no line, neither verbatim nor after normalization
InNoLine(s) == VerbatimLines(s) = {} /\ NormalizedLines(s) = {}

\* the image returned shows the colours of the input array, pixel for pixel
SamePixels(pil, cv) ==
    /\ DOMAIN pil.px = DOMAIN cv.px
    /\ \A p \in DOMAIN cv.px :
          pil.px[p][1] = cv.px[p][3] /\ pil.px[p][2] = cv.px[p][2] /\ pil.px[p][3] = cv.px[p][1]

\* C3: a finding whose matched string is in no OCR line, verbatim or
\* normalized, gets the box (0,0,0,0), and redacting a list holding only that
\* finding returns the input's pixels, in blur and in black mode.
C3_UnalignedLeftAlone ==
    /\ Aligned =>
          \A k \in 1..Len(text_findings) :
              InNoLine(text_findings[k].matched)
                  => k <= Len(boxes) /\ boxes[k].box = <<0, 0, 0, 0>>
    /\ (Aligned /\ rpc = "once" /\ InNoLine(detections[1].matched))
          => /\ detections[1].box = <<0, 0, 0, 0>>
             /\ SamePixels(redacted, cv_img)

\* an unaligned finding redacted in black mode on a page that has lines and
\* whose pixel (0,0) is not black
C3_Witness ==
    /\ Aligned
    /\ rpc = "once"
    /\ mode = "black"
    /\ Len(ocr_lines) > 0
    /\ Len(detections[1].matched) > 0
    /\ InNoLine(detections[1].matched)
    /\ cv_img.px[<<0, 0>>] # <<0, 0, 0>>

\* the unaligned finding redacted in blur mode
C3_WitnessBlur ==
    /\ Aligned
    /\ rpc = "once"
    /\ mode = "blur"
    /\ Len(ocr_lines) > 0
    /\ InNoLine(detections[1].matched)

\* pixel p lies in box expanded by 3% of its width and height on each side
InExpandedBox(p, box) ==
    LET padx == (3 * box[3]) \div 100
        pady == (3 * box[4]) \div 100
    IN /\ box[1] - padx <= p[2] /\ p[2] < box[1] + box[3] + padx
       /\ box[2] - pady <= p[1] /\ p[1] < box[2] + box[4] + pady

\* C4: in black mode every pixel of the image inside the expanded box of a
\* finding of positive width and height has the fill colour, whatever the
\* order of the findings.
C4_BlackCovers ==
    (Redacted /\ mode = "black") =>
        \A k \in 1..Len(detections) :
            (detections[k].box[3] > 0 /\ detections[k].box[4] > 0)
                => \A p \in DOMAIN redacted.px :
                       InExpandedBox(p, detections[k].box) => redacted.px[p] = <<0, 0, 0>>

\* two findings in black mode, the first covering pixel (0,0) by its padding alone
C4_Witness ==
    /\ rpc = "once"
    /\ mode = "black"
    /\ Len(detections) = 2
    /\ detections[1].box = <<1, 0, 34, 1>>
    /\ detections[2].box = <<2, 1, 5, 4>>
    /\ cv_img.px[<<0, 0>>] # <<0, 0, 0>>
    /\ redacted.px[<<0, 0>>] = <<0, 0, 0>>

\* C5: in either mode and for any boxes, every pixel outside the expanded
\* boxes clamped to the image is unchanged: nothing is written at the opposite
\* edge, and a box of no area after clamping causes no write.
C5_NothingOutsideBoxes ==
    Redacted =>
        \A p \in DOMAIN cv_img.px :
            (\A k \in 1..Len(detections) : ~InExpandedBox(p, detections[k].box))
                => /\ redacted.px[p][1] = cv_img.px[p][3]
                   /\ redacted.px[p][2] = cv_img.px[p][2]
                   /\ redacted.px[p][3] = cv_img.px[p][1]

\* C6: black mode is idempotent: redacting the redacted image again with the
\* same findings gives the same image.
C6_BlackIdempotent ==
    (rpc = "twice" /\ mode = "black") => redacted2 = redacted

\* a second black redaction of an image the first one changed
C6_Witness ==
    /\ rpc = "twice"
    /\ mode = "black"
    /\ Len(detections) = 2
    /\ detections[1].box # detections[2].box
    /\ ~SamePixels(redacted, cv_img)
    /\ redacted2 = redacted

\* odd(n): n if odd, else the next odd number
OddFrom(n) == IF n % 2 = 1 THEN n ELSE n + 1

KernelEntries == {kernels[i] : i \in 1..Len(kernels)}

\* what the claim says of every region: size max(15, odd(width/10)), odd,
\* at least 15, not decreasing with the width, 15 for a box of width 50
C7_KernelShape ==
    /\ \A e \in KernelEntries :
          /\ e.k = (IF OddFrom(e.width \div 10) > 15 THEN OddFrom(e.width \div 10) ELSE 15)
          /\ e.k % 2 = 1
          /\ e.k >= 15
          /\ e.box[3] = 50 => e.k = 15
    /\ \A e1, e2 \in KernelEntries : e1.width <= e2.width => e1.k <= e2.k

ClaimText == Concat(Sentence)        \* "Contact jane@example.com or call 555-123-4567"
ClaimBox == <<10, 10, 300, 20>>
ClaimEmail == Sentence[2]            \* "jane@example.com"
ClaimPhone == Sentence[4]            \* "555-123-4567"

ClaimPage == Aligned /\ ocr_lines = <<[text |-> ClaimText, box |-> ClaimBox]>>

\* C8 as stated: the text yields exactly two findings, EMAIL and PHONE, both
\* located at (10,10,300,20).
C8_TwoFindingsAsClaimed ==
    ClaimPage =>
        /\ Len(text_findings) = 2
        /\ \E i, j \in 1..Len(text_findings) :
              /\ text_findings[i].label = "EMAIL" /\ text_findings[i].matched = ClaimEmail
              /\ text_findings[j].label = "PHONE" /\ text_findings[j].matched = ClaimPhone
        /\ \A k \in 1..Len(boxes) : boxes[k].box = ClaimBox

\* C8 amended: the text yields four findings, in order EMAIL
\* "jane@example.com", PHONE "555-123-4567", CVV "555" and CVV "123"; exactly
\* one is an EMAIL and exactly one a PHONE, and all are located at
\* (10,10,300,20).
C8_EmailPhoneAndCvv ==
    ClaimPage =>
        /\ [k \in 1..Len(text_findings) |->
               <<text_findings[k].label, text_findings[k].matched>>]
             = << <<"EMAIL", ClaimEmail>>, <<"PHONE", ClaimPhone>>,
                  <<"CVV", <<"5", "5", "5">> >>, <<"CVV", <<"1", "2", "3">> >> >>
        /\ Len(boxes) = Len(text_findings)
        /\ \A k \in 1..Len(boxes) : boxes[k].box = ClaimBox

\* the page of the scenario, aligned
C8_Witness == ClaimPage /\ Len(boxes) = 4

\* the pages of the first k uploaded files that the loop hands to
\* process_one_pil, as <<file index, page number>>, in processing order
RECURSIVE PagesUpTo(_, _)
PagesUpTo(files, k) ==
    IF k = 0 THEN <<>>
    ELSE PagesUpTo(files, k - 1)
         \o (IF files[k].ext \in SupportedExts
             THEN [n \in 1..Len(files[k].pages) |-> <<k, n>>]
             ELSE <<>>)

\* the pages processed so far
ProcessedPages ==
    IF fi = 0 THEN <<>>
    ELSE PagesUpTo(uploads, fi - 1)
         \o (IF fi <= Len(uploads) THEN [n \in 1..(pno - 1) |-> <<fi, n>>] ELSE <<>>)

\* the export branch has built the document and the log
Exported == pc = "done" /\ Len(redacted_images_global) > 0

\* C9: at every point of a run the log and the list of page images have one
\* entry per processed page or sheet, the i-th log entry carrying the file (and
\* sheet) name and the page tag of the i-th processed page; the exported
\* document and the exported log have that same length, and the i-th page of
\* the document is the i-th processed page with the i-th log entry's boxes
\* redacted.
C9_LogMatchesPages ==
    /\ Len(all_logs) = Len(ProcessedPages)
    /\ Len(redacted_images_global) = Len(ProcessedPages)
    /\ \A i \in 1..Len(all_logs) :
          LET f == uploads[ProcessedPages[i][1]]
              n == ProcessedPages[i][2]
          IN  /\ all_logs[i].file = NameOf(f, n)
              /\ all_logs[i].page = TagOf(f, n)
    /\ Exported =>
          /\ bundle.log_json = all_logs
          /\ Len(bundle.pdf) = Len(bundle.log_json)
          /\ \A i \in 1..Len(bundle.pdf) :
                LET pg == uploads[ProcessedPages[i][1]].pages[ProcessedPages[i][2]]
                IN  bundle.pdf[i] = apply_redactions_cv(pil_to_cv(pg.img),
                                                        bundle.log_json[i].redacted,
                                                        opts.redact_method)

\* a two-page PDF and a two-sheet workbook exported together
C9_Witness ==
    /\ Exported
    /\ {uploads[i].ext : i \in 1..Len(uploads)} = {".pdf", ".xlsx"}
    /\ Len(bundle.pdf) = 4

\* an unsupported file skipped before an image is processed and exported
C9_WitnessSkipped ==
    /\ Exported
    /\ Len(uploads) = 2
    /\ uploads[1].ext = ".txt"
    /\ uploads[2].ext = ".png"
    /\ Len(bundle.pdf) = 1

\* C10: entity detection degrades without error: with enable_ner off the
\* model is never loaded by get_nlp, and a model that cannot be loaded never
\* aborts the run.
C10_NerNeverAborts ==
    /\ ~opts.enable_ner => _NLP = "None"
    /\ pc = "crashed" => crash # "spacy.load"

\* all the pages the uploads hold, in upload order
AllPages == PagesUpTo(uploads, Len(uploads))

\* the script run was ended by an exception raised inside process_one_pil
PageErrorEndedRun == pc = "crashed" /\ crash = "process_one_pil"

\* C11: an error raised while one page is processed does not halt the batch:
\* a run is never ended by such an error while pages that follow the failing
\* one in upload order are still without their output page and log entry.
C11_ErrorDoesNotHaltBatch ==
    PageErrorEndedRun =>
        /\ Len(AllPages) = Len(ProcessedPages) + 1
        /\ Len(all_logs) = Len(AllPages) - 1
        /\ Len(redacted_images_global) = Len(AllPages) - 1

\* the exact-containment path finds no line for s
ExactFails(s) == Len(s) = 0 \/ VerbatimLines(s) = {}

\* C12: when the exact path fails for a finding, it gets the box of the first
\* line whose normalized text contains its normalized match if that match has
\* at least 4 characters, and the box (0,0,0,0) if it has fewer than 4.
C12_NormalizedPath ==
    Aligned =>
        \A k \in 1..Len(text_findings) :
            LET s == text_findings[k].matched
                n == Len(NormalizedLower(s))
            IN  ExactFails(s) =>
                    /\ (n >= 4 /\ NormalizedLines(s) # {})
                          => boxes[k].box = ocr_lines[Smallest(NormalizedLines(s))].box
                    /\ n < 4 => boxes[k].box = <<0, 0, 0, 0>>

\* a finding placed by normalization on the second line, the first line not
\* containing it, next to a finding of three normalized characters that both
\* lines contain after normalization and that stays unplaced
C12_Witness ==
    /\ Aligned
    /\ Len(ocr_lines) = 2
    /\ \E k, j \in 1..Len(text_findings) :
          /\ ExactFails(text_findings[k].matched)
          /\ Len(NormalizedLower(text_findings[k].matched)) >= 4
          /\ NormalizedLines(text_findings[k].matched) = {2}
          /\ boxes[k].box = ocr_lines[2].box
          /\ ExactFails(text_findings[j].matched)
          /\ Len(NormalizedLower(text_findings[j].matched)) = 3
          /\ NormalizedLines(text_findings[j].matched) = {1, 2}
          /\ boxes[j].box = <<0, 0, 0, 0>>

\* regex_entities of the text of each page of the pool
FindingsOf ==
    [ls \in {pg.lines : pg \in PagePool} |-> regex_entities(PageText(ls))]

\* the line's own text contains a match regex_entities found in the page text
HoldsMatch(line, lines) ==
    \E k \in 1..Len(FindingsOf[lines]) : Contains(line.text, FindingsOf[lines][k].matched)

\* C13: in auto-redact mode every OCR line whose text contains a match found
\* by regex_entities in the page text has its box among the boxes of the
\* page's redacted findings, also when the same match is on several lines.
C13_EveryMatchLineRedacted ==
    opts.auto_redact =>
        \A i \in 1..Len(all_logs) :
            LET lines == uploads[ProcessedPages[i][1]].pages[ProcessedPages[i][2]].lines
            IN  \A l \in 1..Len(lines) :
                    HoldsMatch(lines[l], lines)
                        => \E d \in 1..Len(all_logs[i].redacted) :
                               DetBox(all_logs[i].redacted[d]) = lines[l].box

\* the findings of page pg and those selected for redaction, from the page
\* and the options alone
DetectedOn(pg) ==
    TextBoxesOf[pg.lines]
    \o ner_findings(PageText(pg.lines), pg.lines,
                    IF opts.enable_ner THEN "model" ELSE "None", pg.ents)
    \o (IF opts.enable_faces THEN pg.faces ELSE <<>>)
    \o (IF opts.enable_signatures THEN pg.sigs ELSE <<>>)
    \o pg.qrs

SelectedOn(pg) ==
    IF opts.auto_redact THEN DetectedOn(pg)
    ELSE Pick(DetectedOn(pg), (1..Len(DetectedOn(pg))) \ opts.unticked, 1)

\* the i-th processed page
ProcessedPage(i) == uploads[ProcessedPages[i][1]].pages[ProcessedPages[i][2]]

\* C14: with preview_mode on or off, the i-th exported page is
\* apply_redactions_cv of the original pixels of the i-th processed page, the
\* findings selected for that page and the chosen mode: redacted once, with
\* its own selection.
C14_ExportIgnoresPreview ==
    Exported =>
        /\ Len(bundle.pdf) = Len(ProcessedPages)
        /\ \A i \in 1..Len(bundle.pdf) :
              bundle.pdf[i] = apply_redactions_cv(pil_to_cv(ProcessedPage(i).img),
                                                  SelectedOn(ProcessedPage(i)),
                                                  opts.redact_method)

\* an export in preview mode with blur: two pages with different selections,
\* the first changed by its redaction and stored unredacted until the export
C14_Witness ==
    /\ Exported
    /\ opts.preview_mode
    /\ opts.redact_method = "blur"
    /\ Len(bundle.pdf) >= 2
    /\ SelectedOn(ProcessedPage(1)) # SelectedOn(ProcessedPage(2))
    /\ redacted_images_global[1] = ProcessedPage(1).img
    /\ bundle.pdf[1] # ProcessedPage(1).img

====
